---------------------------- MODULE Spec2Model ----------------------------
(***************************************************************************)
(* Model of src/main.go: a payload {"Data": text} is JSON-serialised,      *)
(* prefixed with its 4-byte big-endian length, split into 4 data + 2       *)
(* parity Reed-Solomon shards and drawn, one byte per grayscale pixel,     *)
(* into a square image; decode reads the pixels back, re-splits, calls     *)
(* Reconstruct, trims to the declared length and parses the JSON.          *)
(*                                                                         *)
(* Byte slices are sequences of 0..255; Go index i is TLA+ index i+1.      *)
(* Strings are sequences of code points; the modelled texts are ASCII.     *)
(***************************************************************************)
EXTENDS Integers, Sequences, FiniteSets, TLC

(***************************************************************************)
(* Bounds of the model.                                                    *)
(***************************************************************************)
\* longest text given to `encode`
MaxTextLen == 2
\* how many single pixels the environment may overwrite in one image file
MaxTamper == 1
\* largest width/height of an image file that was not produced by encode
MaxForgeSide == 3

\* characters of the texts: '"' (backslash-escaped), '<' (\u-escaped), 'h'
Chars == {34, 60, 104}
\* gray values the environment writes into single pixels: '"' and 0xff
TamperVals == {34, 255}
\* gray values of the pixels of a foreign image file
ForgeVals == {0, 2, 128}

(***************************************************************************)
(* Program constants.                                                      *)
(***************************************************************************)
DataShards == 4
ParityShards == 2
TotalShards == DataShards + ParityShards
\* width of Go's int on the modelled (64-bit) build
IntBits == 64

Zeros(n) == [k \in 1..n |-> 0]

(***************************************************************************)
(* uint32 values.  A uint32 is kept as its two 16-bit halves, so that the  *)
(* whole range 0 .. 2^32-1 is represented without loss.                    *)
(***************************************************************************)
\* uint32(n) for an int n >= 0: the conversion keeps the low 32 bits
ToUint32(n) == [hi |-> (n \div 65536) % 65536, lo |-> n % 65536]

\* int(u) > n, for a uint32 u and an int n with 0 <= n < 2^31.  int(u) is
\* negative when the sign bit of an IntBits-wide int is bit 31 of u.
IntGreater(u, n) ==
    LET negative == IntBits <= 32 /\ u.hi >= 32768
    IN  ~negative /\ (u.hi > n \div 65536 \/ (u.hi = n \div 65536 /\ u.lo > n % 65536))

\* the value of a uint32 that is known to be below 2^31
AsNat(u) == u.hi * 65536 + u.lo

(***************************************************************************)
(* encoding/binary: BigEndian.PutUint32 and BigEndian.Uint32.              *)
(***************************************************************************)
PutUint32(v) ==
    << v.hi \div 256, v.hi % 256, v.lo \div 256, v.lo % 256 >>

Uint32(b) == [hi |-> b[1] * 256 + b[2], lo |-> b[3] * 256 + b[4]]

(***************************************************************************)
(* encoding/json, for the values the program passes: a map with string     *)
(* keys and string values, written without white space.                    *)
(***************************************************************************)
HexDigits == << 48, 49, 50, 51, 52, 53, 54, 55, 56, 57, 97, 98, 99, 100, 101, 102 >>

\* one character of a JSON string as json.Marshal writes it (HTML-escaping on)
EscapeChar(c) ==
    IF c = 34 \/ c = 92 THEN << 92, c >>
    ELSE IF c = 10 THEN << 92, 110 >>
    ELSE IF c = 13 THEN << 92, 114 >>
    ELSE IF c = 9 THEN << 92, 116 >>
    ELSE IF c < 32 \/ c \in {60, 62, 38}
         THEN << 92, 117, 48, 48, HexDigits[(c \div 16) + 1], HexDigits[(c % 16) + 1] >>
    ELSE << c >>

RECURSIVE EscapeString(_)
EscapeString(s) ==
    IF s = << >> THEN << >> ELSE EscapeChar(Head(s)) \o EscapeString(Tail(s))

QuoteString(s) == << 34 >> \o EscapeString(s) \o << 34 >>

\* json.Marshal of a map with at most one key
Marshal(data) ==
    IF DOMAIN data = {} THEN << 123, 125 >>
    ELSE LET k == CHOOSE k \in DOMAIN data : TRUE
         IN  << 123 >> \o QuoteString(k) \o << 58 >> \o QuoteString(data[k]) \o << 125 >>

HexValue(c) ==
    IF c >= 48 /\ c <= 57 THEN c - 48
    ELSE IF c >= 97 /\ c <= 102 THEN c - 87
    ELSE IF c >= 65 /\ c <= 70 THEN c - 55
    ELSE -1

\* the character a one-letter escape stands for, -1 if there is none
UnescapeLetter(c) ==
    IF c \in {34, 92, 47} THEN c
    ELSE IF c = 98 THEN 8
    ELSE IF c = 102 THEN 12
    ELSE IF c = 110 THEN 10
    ELSE IF c = 114 THEN 13
    ELSE IF c = 116 THEN 9
    ELSE -1

\* Scans a string literal whose opening quote is at b[i - 1]; acc is the
\* text read so far.  Returns the text and the index after the closing quote.
RECURSIVE ScanString(_, _, _)
ScanString(b, i, acc) ==
    IF i > Len(b) THEN [ok |-> FALSE, val |-> << >>, next |-> i]
    ELSE IF b[i] = 34 THEN [ok |-> TRUE, val |-> acc, next |-> i + 1]
    ELSE IF b[i] < 32 THEN [ok |-> FALSE, val |-> << >>, next |-> i]
    ELSE IF b[i] # 92 THEN ScanString(b, i + 1, Append(acc, b[i]))
    ELSE IF i + 1 > Len(b) THEN [ok |-> FALSE, val |-> << >>, next |-> i]
    ELSE IF b[i + 1] = 117
         THEN IF i + 5 > Len(b) \/ \E k \in 2..5 : HexValue(b[i + k]) < 0
              THEN [ok |-> FALSE, val |-> << >>, next |-> i]
              ELSE ScanString(b, i + 6,
                       Append(acc, HexValue(b[i + 2]) * 4096 + HexValue(b[i + 3]) * 256
                                   + HexValue(b[i + 4]) * 16 + HexValue(b[i + 5])))
    ELSE IF UnescapeLetter(b[i + 1]) < 0 THEN [ok |-> FALSE, val |-> << >>, next |-> i]
    ELSE ScanString(b, i + 2, Append(acc, UnescapeLetter(b[i + 1])))

\* a nil map[string]interface{}; it reads as the empty map
NoMap == << >>
SyntaxError == [result |-> NoMap, err |-> "json: syntax error"]

\* json.Unmarshal into map[string]interface{} of an object with at most one
\* member whose value is a string
Unmarshal(b) ==
    IF Len(b) < 2 \/ b[1] # 123 THEN SyntaxError
    ELSE IF b = << 123, 125 >> THEN [result |-> NoMap, err |-> "nil"]
    ELSE IF b[2] # 34 THEN SyntaxError
    ELSE LET key == ScanString(b, 3, << >>)
         IN  IF ~key.ok \/ key.next + 1 > Len(b)
                \/ b[key.next] # 58 \/ b[key.next + 1] # 34
             THEN SyntaxError
             ELSE LET val == ScanString(b, key.next + 2, << >>)
                  IN  IF ~val.ok \/ val.next # Len(b) \/ b[val.next] # 125
                      THEN SyntaxError
                      ELSE [result |-> (key.val :> val.val), err |-> "nil"]

(***************************************************************************)
(* github.com/klauspost/reedsolomon as New(4, 2) uses it: GF(2^8) with the *)
(* polynomial x^8+x^4+x^3+x^2+1, and the systematic coding matrix whose    *)
(* two parity rows are ParityMatrix.                                       *)
(***************************************************************************)
RECURSIVE Xor(_, _)
Xor(a, b) ==
    IF a = 0 THEN b
    ELSE IF b = 0 THEN a
    ELSE ((a + b) % 2) + 2 * Xor(a \div 2, b \div 2)

RECURSIVE galMultiply(_, _)
galMultiply(a, b) ==
    IF b = 0 THEN 0
    ELSE LET doubled == IF 2 * a >= 256 THEN Xor(2 * a - 256, 29) ELSE 2 * a
         IN  Xor(IF b % 2 = 1 THEN a ELSE 0, galMultiply(doubled, b \div 2))

ParityMatrix == << << 27, 28, 18, 20 >>, << 28, 27, 20, 18 >> >>

ErrShortData == "reedsolomon: not enough data to fill the number of requested shards"
ErrShardNoData == "reedsolomon: no shard data"
ErrShardSize == "reedsolomon: shard sizes do not match"
ErrTooFewShards == "reedsolomon: too few shards given"

\* bytes per shard: (len(data) + dataShards - 1) / dataShards
SplitShardSize(n) == (n + DataShards - 1) \div DataShards

\* Split: the data, zero-padded, cut into DataShards equal shards, followed
\* by ParityShards zero-filled shards of the same size
Split(data) ==
    IF Len(data) = 0 THEN [shards |-> << >>, err |-> ErrShortData]
    ELSE LET perShard == SplitShardSize(Len(data))
             padded == data \o Zeros(TotalShards * perShard - Len(data))
         IN  [shards |-> [k \in 1..TotalShards |->
                             SubSeq(padded, (k - 1) * perShard + 1, k * perShard)],
              err |-> "nil"]

\* checkShards: every present shard has the same non-zero size
checkShards(shards, nilok) ==
    LET sizes == {Len(shards[k]) : k \in DOMAIN shards} \ {0}
    IN  IF sizes = {} THEN ErrShardNoData
        ELSE IF Cardinality(sizes) > 1 THEN ErrShardSize
        ELSE IF ~nilok /\ \E k \in DOMAIN shards : Len(shards[k]) = 0 THEN ErrShardSize
        ELSE "nil"

\* byte j of parity shard r, computed from the data shards
ParityByte(shards, r, j) ==
    LET term(c) == galMultiply(ParityMatrix[r][c], shards[c][j])
    IN  Xor(Xor(term(1), term(2)), Xor(term(3), term(4)))

\* Encode: overwrites the parity shards, leaves the data shards alone
Encode(shards) ==
    IF Len(shards) # TotalShards THEN [shards |-> shards, err |-> ErrTooFewShards]
    ELSE IF checkShards(shards, FALSE) # "nil"
         THEN [shards |-> shards, err |-> checkShards(shards, FALSE)]
    ELSE [shards |-> [k \in 1..TotalShards |->
                         IF k <= DataShards THEN shards[k]
                         ELSE [j \in 1..Len(shards[k]) |->
                                  ParityByte(shards, k - DataShards, j)]],
          err |-> "nil"]

\* the bytes at position j of the missing shards: the one completion of the
\* present bytes that satisfies both parity equations
RebuildColumn(shards, missing, j) ==
    CHOOSE f \in [missing -> 0..255] :
        LET full == [k \in 1..TotalShards |->
                        IF k \in missing THEN << f[k] >> ELSE << shards[k][j] >>]
        IN  \A r \in 1..ParityShards : full[DataShards + r][1] = ParityByte(full, r, 1)

\* Reconstruct: nothing to do (and nothing verified) when every shard is
\* present; a shard is missing when its length is zero
Reconstruct(shards) ==
    LET missing == {k \in 1..TotalShards : Len(shards[k]) = 0}
        size == CHOOSE n \in {Len(shards[k]) : k \in 1..TotalShards} : n # 0
    IN  IF Len(shards) # TotalShards THEN [shards |-> shards, err |-> ErrTooFewShards]
        ELSE IF checkShards(shards, TRUE) # "nil"
             THEN [shards |-> shards, err |-> checkShards(shards, TRUE)]
        ELSE IF missing = {} THEN [shards |-> shards, err |-> "nil"]
        ELSE IF TotalShards - Cardinality(missing) < DataShards
             THEN [shards |-> shards, err |-> ErrTooFewShards]
        ELSE [shards |-> [k \in 1..TotalShards |->
                             IF k \in missing
                             THEN [j \in 1..size |-> RebuildColumn(shards, missing, j)[k]]
                             ELSE shards[k]],
              err |-> "nil"]

(***************************************************************************)
(* image, image/color and gg.  A pixel is an 8-bit RGBA colour; an image   *)
(* keeps its pixels row by row, pixel (x, y) at index y*w + x + 1.         *)
(***************************************************************************)
NilImage == [nil |-> TRUE, w |-> 0, h |-> 0, pix |-> << >>]

Transparent == [r |-> 0, g |-> 0, b |-> 0, a |-> 0]

\* gg.NewContext(w, h): a fresh RGBA image, every pixel zero
NewContext(w, h) ==
    [nil |-> FALSE, w |-> w, h |-> h, pix |-> [k \in 1..(w * h) |-> Transparent]]

\* color.RGBAModel.Convert(color.Gray{Y: y}): the 16-bit channels y*0x101
\* and alpha 0xffff, each shifted right by 8
GrayToRGBA(y) ==
    [r |-> (y * 257) \div 256, g |-> (y * 257) \div 256, b |-> (y * 257) \div 256,
     a |-> 65535 \div 256]

\* color.GrayModel.Convert of an RGBA pixel:
\*   (19595*r + 38470*g + 7471*b + 1<<15) >> 24  on the 16-bit channels c*0x101.
\* The 32-bit sum is 256*high + low, so the shift is taken in two steps.
GrayModelConvert(c) ==
    LET r == c.r * 257
        g == c.g * 257
        b == c.b * 257
        high == 19595 * (r \div 256) + 38470 * (g \div 256) + 7471 * (b \div 256)
        low == 19595 * (r % 256) + 38470 * (g % 256) + 7471 * (b % 256) + 32768
    IN  (high + low \div 256) \div 65536

\* dc.SetPixel(x, y) after dc.SetColor(c): image.RGBA.Set ignores points
\* outside the image
SetPixel(im, x, y, c) ==
    IF x >= 0 /\ x < im.w /\ y >= 0 /\ y < im.h
    THEN [im EXCEPT !.pix[y * im.w + x + 1] = c]
    ELSE im

At(im, x, y) == im.pix[y * im.w + x + 1]

\* greatest s with s*s <= n
FloorSqrt(n) == CHOOSE s \in 0..n : s * s <= n /\ (s + 1) * (s + 1) > n

\* int(math.Ceil(math.Sqrt(float64(n)))): least s with s*s >= n
CeilSqrt(n) == CHOOSE s \in 0..n : s * s >= n /\ \A t \in 0..(s - 1) : t * t < n

(***************************************************************************)
(* encodeDataToImage.                                                      *)
(***************************************************************************)
\* the map main builds from the text: {"Data": text}
DataKey == << 68, 97, 116, 97 >>
Payload(t) == (DataKey :> t)

\* the frame with the length of the framed bytes in the length field
FrameFramedLength(jsonBytes) ==
    PutUint32(ToUint32(Len(jsonBytes) + 4)) \o jsonBytes

\* lengthBytes ++ dataBytes: the 4-byte big-endian length, then the JSON
Frame(jsonBytes) == PutUint32(ToUint32(Len(jsonBytes))) \o jsonBytes

\* the shards appended one after the other, in shard order
RECURSIVE Flatten(_)
Flatten(shards) ==
    IF shards = << >> THEN << >> ELSE Head(shards) \o Flatten(Tail(shards))

\* the loop with x and y exchanged: byte i drawn at (i / side, i % side)
RECURSIVE DrawPixelsTransposed(_, _, _, _, _)
DrawPixelsTransposed(dc, flattenedData, totalPixels, sideLength, i) ==
    IF i >= totalPixels THEN dc
    ELSE DrawPixelsTransposed(SetPixel(dc, i \div sideLength, i % sideLength,
                                       GrayToRGBA(flattenedData[i + 1])),
                              flattenedData, totalPixels, sideLength, i + 1)

\* the loop  for i := 0; i < totalPixels; i++  from iteration i on
RECURSIVE DrawPixels(_, _, _, _, _)
DrawPixels(dc, flattenedData, totalPixels, sideLength, i) ==
    IF i >= totalPixels THEN dc
    ELSE DrawPixels(SetPixel(dc, i % sideLength, i \div sideLength,
                             GrayToRGBA(flattenedData[i + 1])),
                    flattenedData, totalPixels, sideLength, i + 1)

NoEncode ==
    [called |-> FALSE, img |-> NilImage, err |-> "nil", panic |-> FALSE,
     jsonBytes |-> << >>, dataBytes |-> << >>, shards |-> << >>,
     flattenedData |-> << >>, totalPixels |-> 0, sideLength |-> 0]

\* The result (img, err) of encodeDataToImage(data), together with the
\* values of its local variables.  panic: flattenedData[i] out of range.
encodeDataToImage(data) ==
    LET jsonBytes == Marshal(data)
        dataBytes == Frame(jsonBytes)
        split == Split(dataBytes)
        encoded == Encode(split.shards)
        totalPixels == Len(dataBytes)
        sideLength == CeilSqrt(totalPixels)
        flattenedData == Flatten(encoded.shards)
        locals == [NoEncode EXCEPT !.called = TRUE, !.jsonBytes = jsonBytes,
                                   !.dataBytes = dataBytes]
    IN  IF split.err # "nil" THEN [locals EXCEPT !.err = split.err]
        ELSE IF encoded.err # "nil"
             THEN [locals EXCEPT !.err = encoded.err, !.shards = split.shards]
        ELSE LET sized == [locals EXCEPT !.shards = encoded.shards,
                                         !.flattenedData = flattenedData,
                                         !.totalPixels = totalPixels,
                                         !.sideLength = sideLength]
             IN  IF totalPixels > Len(flattenedData) THEN [sized EXCEPT !.panic = TRUE]
                 ELSE [sized EXCEPT !.img =
                          DrawPixels(NewContext(sideLength, sideLength), flattenedData,
                                     totalPixels, sideLength, 0)]

(***************************************************************************)
(* decodeImageToData.                                                      *)
(***************************************************************************)
ErrInsufficient == "insufficient data in image"
ErrShorter == "data in image is shorter than expected"

\* the two nested loops over y and x: one gray value per pixel, row by row
ExtractBytes(img) ==
    [k \in 1..(img.w * img.h) |->
        GrayModelConvert(At(img, (k - 1) % img.w, (k - 1) \div img.w))]

\* the comparison against the whole pixel stream, length field included
ShorterThanDeclaredWholeStream(dataLength, encodedDataBytes) ==
    IntGreater(dataLength, Len(encodedDataBytes) + 4)

\* int(dataLength) > len(encodedDataBytes)
ShorterThanDeclared(dataLength, encodedDataBytes) ==
    IntGreater(dataLength, Len(encodedDataBytes))

RECURSIVE StripTrailingZeros(_)
StripTrailingZeros(b) ==
    IF b # << >> /\ b[Len(b)] = 0 THEN StripTrailingZeros(SubSeq(b, 1, Len(b) - 1))
    ELSE b

\* the padding removed by dropping trailing zero bytes, the length unused
TrimTrailingZeros(rebuiltData, n) == StripTrailingZeros(rebuiltData)

\* rebuiltData[:n] for a slice made with capacity n and then appended to:
\* a prefix, or the slice extended into the zeroed rest of its capacity
Trim(rebuiltData, n) ==
    IF n <= Len(rebuiltData) THEN SubSeq(rebuiltData, 1, n)
    ELSE rebuiltData \o Zeros(n - Len(rebuiltData))

NoDecode ==
    [called |-> FALSE, result |-> NoMap, err |-> "nil", panic |-> FALSE,
     extractedBytes |-> << >>, dataLength |-> ToUint32(0), headerRead |-> FALSE,
     rebuiltLen |-> 0, trimmed |-> FALSE]

\* The result (map, err) of decodeImageToData(img), together with the values
\* of its local variables.  panic: img is nil and img.Bounds() dereferences it.
decodeImageToData(img) ==
    LET started == [NoDecode EXCEPT !.called = TRUE]
    IN  IF img.nil THEN [started EXCEPT !.panic = TRUE]
        ELSE
        LET extractedBytes == ExtractBytes(img)
            read == [started EXCEPT !.extractedBytes = extractedBytes]
        IN  IF Len(extractedBytes) < 4 THEN [read EXCEPT !.err = ErrInsufficient]
            ELSE
            LET dataLength == Uint32(SubSeq(extractedBytes, 1, 4))
                encodedDataBytes == SubSeq(extractedBytes, 5, Len(extractedBytes))
                framed == [read EXCEPT !.dataLength = dataLength, !.headerRead = TRUE]
            IN  IF ShorterThanDeclared(dataLength, encodedDataBytes)
                THEN [framed EXCEPT !.err = ErrShorter]
                ELSE
                LET split == Split(encodedDataBytes)
                    rebuilt == Reconstruct(split.shards)
                IN  IF split.err # "nil" THEN [framed EXCEPT !.err = split.err]
                    ELSE IF rebuilt.err # "nil" THEN [framed EXCEPT !.err = rebuilt.err]
                    ELSE
                    LET rebuiltData == Flatten(rebuilt.shards)
                        parsed == Unmarshal(Trim(rebuiltData, AsNat(dataLength)))
                    IN  [framed EXCEPT !.rebuiltLen = Len(rebuiltData),
                                       !.trimmed = TRUE,
                                       !.result = parsed.result,
                                       !.err = parsed.err]

(***************************************************************************)
(* The command line program and the image file it writes and reads.        *)
(***************************************************************************)
VARIABLES
    text,     \* the text of the encode run that wrote the current file
    enc,      \* encodeDataToImage's result and locals in that run
    file,     \* the image file: absent, not an image, or a PNG with its pixels
    zeroed,   \* the shards (0..5) of the file's pixel stream zeroed since then
    tampers,  \* how many single pixels of the file were overwritten since then
    dec,      \* decodeImageToData's result and locals, last decode of this file
    out       \* what the last run of the program did: its lines, how it ended

vars == << text, enc, file, zeroed, tampers, dec, out >>

NoFile == [kind |-> "absent", img |-> NilImage]
NotRun == [status |-> "none", printed |-> << >>]
Returned(lines) == [status |-> "returned", printed |-> lines]
Panicked(lines) == [status |-> "panic", printed |-> lines]

Texts == UNION {[1..n -> Chars] : n \in 0..MaxTextLen}

\* os.Open and image.Decode: nil, after a printed line, when the file cannot
\* be opened or is not an image.  PNG is lossless: the pixels come back as
\* they were written.
readImageFromPath(f) ==
    IF f.kind = "absent" THEN [img |-> NilImage, printed |-> << "Error opening image file" >>]
    ELSE IF f.kind # "png" THEN [img |-> NilImage, printed |-> << "Error decoding image" >>]
    ELSE [img |-> f.img, printed |-> << >>]

Init ==
    /\ text = << >>
    /\ enc = NoEncode
    /\ file = NoFile
    /\ zeroed = {}
    /\ tampers = 0
    /\ dec = NoDecode
    /\ out = NotRun

\* encodeDataToImage is a pure function of the text: its runs, by text
EncodeRuns == {[text |-> t, run |-> encodeDataToImage(Payload(t))] : t \in Texts}

\* main, case "encode": encodeDataToImage, os.Create (its error is dropped;
\* png.Encode then fails on the nil file), png.Encode, file.Close
MainEncode(t, created) ==
    LET r == (CHOOSE e \in EncodeRuns : e.text = t).run
    IN  /\ dec' = NoDecode
        /\ IF r.panic \/ r.err # "nil" \/ ~created
           THEN /\ out' = IF r.panic THEN Panicked(<< >>)
                          ELSE IF r.err # "nil" THEN Returned(<< "Error encoding data" >>)
                          ELSE Returned(<< "Error saving as png" >>)
                /\ UNCHANGED << text, enc, file, zeroed, tampers >>
           ELSE /\ text' = t
                /\ enc' = r
                /\ file' = [kind |-> "png", img |-> r.img]
                /\ zeroed' = {}
                /\ tampers' = 0
                /\ out' = Returned(<< >>)

\* main, case "decode": decodeImageToData(readImageFromPath(filename))
MainDecode ==
    LET read == readImageFromPath(file)
        d == decodeImageToData(read.img)
    IN  /\ dec' = d
        /\ out' = IF d.panic THEN Panicked(read.printed)
                  ELSE IF d.err # "nil"
                       THEN Returned(read.printed \o << "Error decoding data" >>)
                  ELSE Returned(read.printed \o << "Decoded data" >>)
        /\ UNCHANGED << text, enc, file, zeroed, tampers >>

(***************************************************************************)
(* The environment: what can happen to the file between two runs.          *)
(***************************************************************************)
\* the pixel indices (0-based, row by row) of the file's image
Cells(f) == 0..(f.img.w * f.img.h - 1)

SetCell(f, i, c) == [f EXCEPT !.img.pix[i + 1] = c]

\* One pixel of an encoded image is overwritten: one of the four length
\* pixels, or one of the pixels the encode loop did not draw.
TamperPixel(i, v) ==
    /\ enc.called /\ file.kind = "png"
    /\ zeroed = {}
    /\ tampers < MaxTamper
    /\ i \in Cells(file)
    /\ i < 4 \/ i >= enc.totalPixels
    /\ file.img.pix[i + 1] # GrayToRGBA(v)
    /\ file' = SetCell(file, i, GrayToRGBA(v))
    /\ tampers' = tampers + 1
    /\ dec' = NoDecode
    /\ out' = NotRun
    /\ UNCHANGED << text, enc, zeroed >>

\* the pixel indices at which shard k (0..5) of the flattened shard set lies
ShardCells(k) ==
    LET perShard == Len(enc.shards[1])
    IN  (k * perShard)..((k + 1) * perShard - 1)

RECURSIVE ZeroCells(_, _)
ZeroCells(f, cells) ==
    IF cells = {} THEN f
    ELSE LET i == CHOOSE i \in cells : TRUE
         IN  ZeroCells(SetCell(f, i, GrayToRGBA(0)), cells \ {i})

\* The pixels of up to three of the six shards of an encoded image are
\* blacked out (those of them the image has).
ZeroShards(K) ==
    /\ enc.called /\ file.kind = "png"
    /\ zeroed = {} /\ tampers = 0
    /\ K # {} /\ Cardinality(K) <= ParityShards + 1
    /\ file' = ZeroCells(file, (UNION {ShardCells(k) : k \in K}) \cap Cells(file))
    /\ zeroed' = K
    /\ dec' = NoDecode
    /\ out' = NotRun
    /\ UNCHANGED << text, enc, tampers >>

\* An image that no encode run produced is put where there is no image:
\* w x h gray pixels, the first four given by header, the others equal to
\* filler.
ForgeFile(w, h, header, filler) ==
    /\ file.kind # "png"
    /\ file' = [kind |-> "png",
                img |-> [nil |-> FALSE, w |-> w, h |-> h,
                         pix |-> [k \in 1..(w * h) |->
                                     GrayToRGBA(IF k <= 4 THEN header[k] ELSE filler)]]]
    /\ text' = << >>
    /\ enc' = NoEncode
    /\ zeroed' = {}
    /\ tampers' = 0
    /\ dec' = NoDecode
    /\ out' = NotRun

\* The file is removed, or replaced by something that is not an image.
LoseFile(kind) ==
    /\ file' = [kind |-> kind, img |-> NilImage]
    /\ text' = << >>
    /\ enc' = NoEncode
    /\ zeroed' = {}
    /\ tampers' = 0
    /\ dec' = NoDecode
    /\ out' = NotRun

Next ==
    \/ \E t \in Texts, created \in BOOLEAN : MainEncode(t, created)
    \/ MainDecode
    \/ \E i \in 0..(MaxForgeSide + 6) * (MaxForgeSide + 6), v \in TamperVals : TamperPixel(i, v)
    \/ \E K \in SUBSET (0..(TotalShards - 1)) : ZeroShards(K)
    \/ \E w \in 0..MaxForgeSide, h \in 0..MaxForgeSide,
          header \in [1..4 -> ForgeVals], filler \in ForgeVals :
            ForgeFile(w, h, header, filler)
    \/ \E kind \in {"absent", "garbage"} : LoseFile(kind)

Spec == Init /\ [][Next]_vars

(***************************************************************************)
(* Properties.                                                             *)
(***************************************************************************)
\* the file holds exactly the image the recorded encode run returned
FileIsEncoded == enc.called /\ file.kind = "png" /\ file.img = enc.img

\* the file's image has the size of the encoded image and the same pixel in
\* every cell the encode loop drew (the cells 0 .. totalPixels-1)
AgreesOnData ==
    /\ enc.called /\ file.kind = "png"
    /\ file.img.w = enc.img.w /\ file.img.h = enc.img.h
    /\ \A i \in 0..(enc.totalPixels - 1) : file.img.pix[i + 1] = enc.img.pix[i + 1]

\* the gray values of the file's pixels, row by row
FileStream == [k \in 1..(file.img.w * file.img.h) |-> GrayModelConvert(file.img.pix[k])]

C2_ErasureTolerance ==
    (dec.called /\ enc.called /\ zeroed # {} /\ Cardinality(zeroed) <= ParityShards) =>
        (dec.err = "nil" /\ dec.result = Payload(text))

\* C3 (unrecoverable loss is reported): with more than ParityShards = 2 of the
\* six shards zeroed, decode fails with the reconstruction error of the erasure
\* code and returns no payload.
C3_UnrecoverableReported ==
    (dec.called /\ enc.called /\ Cardinality(zeroed) > ParityShards) =>
        (dec.err = ErrTooFewShards /\ dec.result = NoMap)

\* C4 (grid sizing): the image is a square of side S = ceil(sqrt(n)), n the
\* length of the flattened shard set (data and parity), so S*S >= n.
C4_GridSizing ==
    enc.called =>
        LET n == Len(enc.flattenedData)
            S == enc.img.w
        IN  /\ enc.img.h = S
            /\ S * S >= n
            /\ (S - 1) * (S - 1) < n

\* C5 (pixel stream content): the cells of the encoded image, row by row, are
\* the flattened shard set - all six shards in order - followed only by
\* padding; no shard byte is missing from the image.
C5_PixelStreamIsShardSet ==
    enc.called =>
        LET stream == ExtractBytes(enc.img)
            n == Len(enc.flattenedData)
        IN  /\ Len(stream) >= n
            /\ SubSeq(stream, 1, n) = enc.flattenedData

\* C6 (length prefix): the length decode reads from the first four pixels of
\* the encoded image is the byte length of the serialised payload, not that of
\* the framed or sharded bytes.
C6_LengthPrefix ==
    (dec.called /\ FileIsEncoded) =>
        (dec.headerRead /\ dec.dataLength = ToUint32(Len(enc.jsonBytes)))

C6_Witness ==
    /\ dec.called /\ FileIsEncoded /\ dec.headerRead
    /\ Len(enc.jsonBytes) > 11
    /\ Len(enc.dataBytes) = Len(enc.jsonBytes) + 4
    /\ Len(enc.flattenedData) > Len(enc.dataBytes)

\* C7 (padding independence): an image that agrees with the encoded image on
\* every drawn cell and differs from it at most in the cells after them
\* decodes to the same result as the encoded image.
C7_PaddingIndependence ==
    (dec.called /\ AgreesOnData) =>
        LET clean == decodeImageToData(enc.img)
        IN  dec.result = clean.result /\ dec.err = clean.err /\ dec.panic = clean.panic

C7_Witness ==
    /\ dec.called /\ AgreesOnData
    /\ \E i \in enc.totalPixels..(enc.img.w * enc.img.h - 1) :
           file.img.pix[i + 1] # enc.img.pix[i + 1]
    /\ dec.err = "nil" /\ dec.result = Payload(text)

DeclaredExceedsRest ==
    LET s == FileStream
    IN  s[1] > 0 \/ s[2] > 0 \/ s[3] * 256 + s[4] > Len(s) - 4

\* C9 (a truncated frame is rejected): an image with fewer than four pixels,
\* or whose declared length exceeds the bytes after the length field, makes
\* decodeImageToData return one of its two format errors and no payload, and
\* main reports the error.
C9_TruncatedRejected ==
    (dec.called /\ file.kind = "png" /\ (Len(FileStream) < 4 \/ DeclaredExceedsRest)) =>
        /\ ~dec.panic
        /\ dec.err = (IF Len(FileStream) < 4 THEN ErrInsufficient ELSE ErrShorter)
        /\ dec.result = NoMap
        /\ out = Returned(<< "Error decoding data" >>)

C9_Witness ==
    /\ dec.called /\ file.kind = "png"
    /\ Len(FileStream) >= 4 /\ DeclaredExceedsRest
    /\ FileStream[1] = 0 /\ FileStream[2] = 0
    /\ dec.err = ErrShorter

==========================================================================
